---- MODULE Spec2Model ----
(***************************************************************************)
(* The video timeline editor of vite-project/src/pages/CuttingPage.tsx:    *)
(* the <video> element and its media events, the React state of the       *)
(* component (duration, currentTime, chunks, thumbnails, loadingThumbs),  *)
(* the effect that registers the media listeners, the asynchronous        *)
(* thumbnail passes (processThumbnails / generateThumbnails / seekTo) and *)
(* the two click handlers (handleTimelineClick, handleAddChunk).          *)
(*                                                                         *)
(* Times are whole numbers of seconds.  The environment only offers       *)
(* durations that count and the track width divide, so duration / count   *)
(* and percent * duration are exact in the integers, as they are in the   *)
(* floating point arithmetic of the code for such values.                 *)
(***************************************************************************)
EXTENDS Integers, Sequences, FiniteSets, TLC

\* ---------------------------------------------------------------- bounds
MaxPasses == 2      \* thumbnail passes that may be in flight together
MaxCount == 2       \* largest sample count of the concurrent specification
MaxDuration == 4    \* longest finite duration a source reports
MaxTime == 4        \* latest position the user seeks or plays to
MaxSources == 2     \* media sources (videoUrl values) of one session
MaxChunks == 2      \* chunks the user adds in one session
MaxInterval == 2    \* the sampler alone: durations are count * 1..MaxInterval
MaxLongDuration == 20  \* the chunk editor alone: durations beyond maxChunk

\* rect.width of the timeline, in pixels
TrackWidth == 2

\* ------------------------------------------------------ program constants
minChunk == 2
maxChunk == 10
thumbCount == 15

\* JavaScript's non-finite numbers: Infinity is above every finite time of
\* the model, NaN is a value no finite time equals.
Infinity == 1000000
NaN == -1

isFinite(x) == x # Infinity /\ x # NaN

Min(a, b) == IF a <= b THEN a ELSE b
Max(a, b) == IF a >= b THEN a ELSE b

VARIABLES
  videoUrl,       \* identity of the media source (location state)
  video,          \* the <video> element: duration, currentTime, seeking,
                  \* haveMetadata (readyState >= 1), seekable (ends of ranges)
  pendingEv,      \* media events queued for dispatch
  listening,      \* the effect's listeners are registered on the element
  effectPending,  \* a render committed whose effect has not run yet
  renderDuration, \* duration as seen by the render whose effect is pending
  closDuration,   \* duration captured by the closure of onTimeUpdate
  count,          \* the count argument of generateThumbnails
  duration, currentTime, chunks, thumbnails, loadingThumbs,  \* React state
  passes,         \* the thumbnail passes in flight, oldest first
  lastAlert       \* the text of the last alert() shown

vars == <<videoUrl, video, pendingEv, listening, effectPending, renderDuration,
          closDuration, count, duration, currentTime, chunks, thumbnails,
          loadingThumbs, passes, lastAlert>>

\* ------------------------------------------------------------ environment
\* Finite positive durations a source reports (see the header on units).
FiniteDurations ==
  {d \in 1..MaxDuration : d % (Max(count, 1) * TrackWidth) = 0}

\* video.duration once metadata is known: finite, zero, or Infinity (a
\* recording or a stream).
ReportedDurations == FiniteDurations \cup {0, Infinity}

\* video.seekable: no range, or one range [0, e].  A recording or stream of
\* unknown length exposes e = Infinity or the end of what is buffered; some
\* builds expose [0, 0] for a streamed source of finite length.
SeekableRanges ==
  {<< >>} \cup {<<e>> : e \in FiniteDurations \cup {0, Infinity}}

\* The element after the media element load algorithm (a new src).
EmptyVideo ==
  [duration |-> NaN, currentTime |-> 0, seeking |-> FALSE,
   haveMetadata |-> FALSE, seekable |-> << >>]

\* `video.currentTime = t`: with metadata the element starts a seek to t (a
\* seek already running is replaced); without it t only becomes the default
\* playback start position, which currentTime reads back.
SetCurrentTime(v, t) ==
  [v EXCEPT !.currentTime = t, !.seeking = (v.haveMetadata \/ @)]

\* ------------------------------------------------------- thumbnail passes
\* passes holds the calls of generateThumbnails that are suspended at an
\* await, oldest first.  pc is the await a pass is at ("seek": the promise of
\* seekTo, "settle": the 100 ms delay), i, interval, originalTime and thumbs
\* are its locals, src is the media source it was started for.
Passes == 1..Len(passes)

RemoveAt(seq, k) == SubSeq(seq, 1, k - 1) \o SubSeq(seq, k + 1, Len(seq))

\* A pass is stale once a newer pass has started or the source has changed.
Stale(p) == p < Len(passes) \/ passes[p].src # videoUrl

\* Interval dividing by one sample too many.
IntervalOffByOne(d, n) == d \div (n + 1)

\* const interval = duration / count  (x / 0 is Infinity for x > 0)
Interval(d, n) == IF n = 0 THEN Infinity ELSE d \div n

\* SampleTime running from the last sample's time down to 0.
SampleTimeDescending(i, interval) == (count - 1 - i) * interval

\* const time = i * interval
SampleTime(i, interval) == i * interval

\* The time of the sample pass p is working on.
SeekTarget(p) == SampleTime(passes[p].i, passes[p].interval)

\* AfterSample with a failed sample (one that adds no thumbnail) ending the
\* batch, as if the try enclosed the loop.
AfterSampleAbort(p, newThumbs) ==
  LET ps == passes[p]
      n == ps.i + 1
  IN IF n < count /\ newThumbs # ps.thumbs
     THEN /\ passes' = [passes EXCEPT ![p] =
                          [ps EXCEPT !.i = n, !.pc = "seek", !.thumbs = newThumbs]]
          /\ video' = SetCurrentTime(video, SampleTime(n, ps.interval))
          /\ UNCHANGED <<thumbnails, loadingThumbs>>
     ELSE /\ passes' = RemoveAt(passes, p)
          /\ video' = SetCurrentTime(video, ps.originalTime)
          /\ thumbnails' = newThumbs
          /\ loadingThumbs' = FALSE

\* The tail of generateThumbnails from the end of iteration i of the loop:
\* either the next iteration up to its `await seekTo`, or the restore of the
\* position, the return, and the continuation of processThumbnails
\* (setThumbnails, finally setLoadingThumbs(false)).
AfterSample(p, newThumbs) ==
  LET ps == passes[p]
      n == ps.i + 1
  IN IF n < count
     THEN /\ passes' = [passes EXCEPT ![p] =
                          [ps EXCEPT !.i = n, !.pc = "seek", !.thumbs = newThumbs]]
          /\ video' = SetCurrentTime(video, SampleTime(n, ps.interval))
          /\ UNCHANGED <<thumbnails, loadingThumbs>>
     ELSE /\ passes' = RemoveAt(passes, p)
          /\ video' = SetCurrentTime(video, ps.originalTime)
          /\ thumbnails' = newThumbs
          /\ loadingThumbs' = FALSE

\* generateThumbnails(video, count) from its entry to its first await, called
\* with the element v; ctxOk is whether canvas.getContext("2d") gave a context.
\* Without a context, and with count = 0, it returns at once and
\* processThumbnails continues (setThumbnails, setLoadingThumbs(false)).
generateThumbnails(v, ctxOk) ==
  LET interval == Interval(v.duration, count)
  IN IF ~ctxOk
     THEN /\ video' = v
          /\ thumbnails' = << >>
          /\ loadingThumbs' = FALSE
          /\ UNCHANGED passes
     ELSE IF count = 0
     THEN /\ video' = SetCurrentTime(v, v.currentTime)
          /\ thumbnails' = << >>
          /\ loadingThumbs' = FALSE
          /\ UNCHANGED passes
     ELSE /\ Len(passes) < MaxPasses
          /\ passes' = Append(passes,
                          [pc |-> "seek", i |-> 0, interval |-> interval,
                           originalTime |-> v.currentTime, thumbs |-> << >>,
                           src |-> videoUrl])
          /\ video' = SetCurrentTime(v, SampleTime(0, interval))
          /\ loadingThumbs' = TRUE
          /\ UNCHANGED thumbnails

\* processThumbnails with a test of isFinite alone (no `video.duration > 0`).
processThumbnailsFiniteOnly(v) ==
  IF isFinite(v.duration)
  THEN /\ duration' = v.duration
       /\ \E ctxOk \in BOOLEAN : generateThumbnails(v, ctxOk)
  ELSE /\ video' = v
       /\ UNCHANGED <<duration, passes, thumbnails, loadingThumbs>>

\* processThumbnails, called with the element v.
processThumbnails(v) ==
  IF isFinite(v.duration) /\ v.duration > 0
  THEN /\ duration' = v.duration
       /\ \E ctxOk \in BOOLEAN : generateThumbnails(v, ctxOk)
  ELSE /\ video' = v
       /\ UNCHANGED <<duration, passes, thumbnails, loadingThumbs>>

\* --------------------------------------------------------------- handlers
\* onTimeUpdate; the `duration` it tests is the one its closure captured when
\* the effect ran (the effect depends on [videoUrl] only).
onTimeUpdate ==
  /\ currentTime' = video.currentTime
  /\ IF ~isFinite(closDuration) \/ closDuration = 0
     THEN IF video.currentTime > 0 /\ Len(video.seekable) > 0
          THEN duration' = video.seekable[1]
          ELSE UNCHANGED duration
     ELSE UNCHANGED duration

\* pixelToTime without the clamp of the fraction to [0, 1].
pixelToTimeNoClamp(clickX, width, dur) ==
  IF dur = Infinity
  THEN (IF clickX = 0 THEN NaN ELSE Infinity)
  ELSE (clickX * dur) \div width

\* Math.max(0, Math.min(1, clickX / rect.width)) * duration
pixelToTime(clickX, width, dur) ==
  LET x == Max(0, Min(width, clickX))
  IN IF dur = Infinity
     THEN (IF x = 0 THEN NaN ELSE Infinity)
     ELSE (x * dur) \div width

\* handleTimelineClick for a click at clickX pixels from the track's left.
handleTimelineClick(clickX) ==
  /\ IF duration <= 0
     THEN UNCHANGED video
     ELSE LET newTime == pixelToTime(clickX, TrackWidth, duration)
          IN IF isFinite(newTime)
             THEN video' = SetCurrentTime(video, newTime)
             ELSE UNCHANGED video

\* Overlaps with a test of the candidate's start alone.
OverlapsStartOnly(cs, start, end) ==
  \E k \in 1..Len(cs) : cs[k].start <= start /\ start < cs[k].end

\* chunks.some((c) => !(end <= c.start || start >= c.end))
Overlaps(cs, start, end) ==
  \E k \in 1..Len(cs) : ~(end <= cs[k].start \/ start >= cs[k].end)

\* handleAddChunk without its minimum-length test.
handleAddChunkNoMin ==
  IF duration <= 0
  THEN UNCHANGED <<chunks, lastAlert>>
  ELSE LET start == video.currentTime
           end == Min(start + maxChunk, duration)
       IN IF Overlaps(chunks, start, end)
          THEN /\ lastAlert' = "Chunk overlaps another!"
               /\ UNCHANGED chunks
          ELSE /\ chunks' = Append(chunks, [start |-> start, end |-> end])
               /\ UNCHANGED lastAlert

\* handleAddChunk with a chunk that runs to the end of the media (no
\* maxChunk cap).
handleAddChunkNoCap ==
  IF duration <= 0
  THEN UNCHANGED <<chunks, lastAlert>>
  ELSE LET start == video.currentTime
           end == duration
       IN IF Overlaps(chunks, start, end)
          THEN /\ lastAlert' = "Chunk overlaps another!"
               /\ UNCHANGED chunks
          ELSE IF end - start < minChunk
          THEN /\ lastAlert' = "Chunk too short!"
               /\ UNCHANGED chunks
          ELSE /\ chunks' = Append(chunks, [start |-> start, end |-> end])
               /\ UNCHANGED lastAlert

\* handleAddChunk
handleAddChunk ==
  IF duration <= 0
  THEN UNCHANGED <<chunks, lastAlert>>
  ELSE LET start == video.currentTime
           end == Min(start + maxChunk, duration)
       IN IF Overlaps(chunks, start, end)
          THEN /\ lastAlert' = "Chunk overlaps another!"
               /\ UNCHANGED chunks
          ELSE IF end - start < minChunk
          THEN /\ lastAlert' = "Chunk too short!"
               /\ UNCHANGED chunks
          ELSE /\ chunks' = Append(chunks, [start |-> start, end |-> end])
               /\ UNCHANGED lastAlert

\* ----------------------------------------------------------------- render
\* (a / b) * 100 in JavaScript's arithmetic, for a finite a >= 0 and b >= 0:
\* 0 / 0 is NaN, a / 0 is Infinity, a / Infinity is 0.
Percent(a, b) ==
  IF b = 0 THEN (IF a = 0 THEN NaN ELSE Infinity)
  ELSE IF b = Infinity THEN 0
  ELSE (a * 100) \div b

\* The `left` and `width` of a chunk's box and the `left` of the playhead, as
\* the JSX computes them for the style attribute.
chunkLeft(chunk) == Percent(chunk.start, duration)

chunkWidth(chunk) == Percent(chunk.end - chunk.start, duration)

playheadLeft == Percent(currentTime, duration)

\* ---------------------------------------------------------------- actions
\* The effect of useEffect(..., [videoUrl]) runs: the cleanup of the previous
\* effect, the registration of the three listeners, the readyState check.
RunEffect ==
  /\ effectPending
  /\ effectPending' = FALSE
  /\ listening' = TRUE
  /\ closDuration' = renderDuration
  /\ IF video.haveMetadata
     THEN processThumbnails(video)
     ELSE UNCHANGED <<video, duration, passes, thumbnails, loadingThumbs>>
  /\ UNCHANGED <<videoUrl, pendingEv, renderDuration, count, currentTime,
                 chunks, lastAlert>>

\* The location state brings another videoUrl: the component renders again,
\* the element loads the new src (its state is reset and its queued events
\* are dropped) and the effect is scheduled.
ChangeVideoUrl ==
  /\ ~effectPending
  /\ videoUrl < MaxSources
  /\ videoUrl' = videoUrl + 1
  /\ video' = EmptyVideo
  /\ pendingEv' = {}
  /\ effectPending' = TRUE
  /\ renderDuration' = duration
  /\ UNCHANGED <<listening, closDuration, count, duration, currentTime, chunks,
                 thumbnails, loadingThumbs, passes, lastAlert>>

\* The element learns the metadata of its source: it queues durationchange
\* and loadedmetadata, and seeks to the default playback start position if
\* one was set.
LoadMetadata ==
  /\ ~video.haveMetadata
  /\ \E d \in ReportedDurations :
       video' = [video EXCEPT !.duration = d, !.haveMetadata = TRUE,
                              !.seeking = (video.currentTime > 0)]
  /\ pendingEv' = {"durationchange", "loadedmetadata"}
  /\ UNCHANGED <<videoUrl, listening, effectPending, renderDuration,
                 closDuration, count, duration, currentTime, chunks,
                 thumbnails, loadingThumbs, passes, lastAlert>>

\* More of the source arrives and its duration changes: the element queues
\* durationchange.
DurationChange ==
  /\ video.haveMetadata
  /\ \E d \in ReportedDurations \ {video.duration} :
       video' = [video EXCEPT !.duration = d]
  /\ pendingEv' = pendingEv \cup {"durationchange"}
  /\ UNCHANGED <<videoUrl, listening, effectPending, renderDuration,
                 closDuration, count, duration, currentTime, chunks,
                 thumbnails, loadingThumbs, passes, lastAlert>>

\* The range the element can seek in changes as the source is buffered.
SeekableChange ==
  /\ video.haveMetadata
  /\ \E s \in SeekableRanges \ {video.seekable} :
       video' = [video EXCEPT !.seekable = s]
  /\ UNCHANGED <<videoUrl, pendingEv, listening, effectPending, renderDuration,
                 closDuration, count, duration, currentTime, chunks,
                 thumbnails, loadingThumbs, passes, lastAlert>>

\* A queued loadedmetadata or durationchange event is dispatched:
\* onLoadedMetadata / onDurationChange, when the listeners are registered.
DispatchEvent ==
  /\ \E ev \in pendingEv :
       /\ pendingEv' = pendingEv \ {ev}
       /\ IF listening
          THEN processThumbnails(video)
          ELSE UNCHANGED <<video, duration, passes, thumbnails, loadingThumbs>>
  /\ UNCHANGED <<videoUrl, listening, effectPending, renderDuration,
                 closDuration, count, currentTime, chunks, lastAlert>>

\* A timeupdate event is dispatched (playback advanced or a seek ended).
TimeUpdate ==
  /\ listening
  /\ video.haveMetadata
  /\ onTimeUpdate
  /\ UNCHANGED <<videoUrl, video, pendingEv, listening, effectPending,
                 renderDuration, closDuration, count, chunks, thumbnails,
                 loadingThumbs, passes, lastAlert>>

\* Playback advances the position by a second.
Play ==
  /\ video.haveMetadata
  /\ ~video.seeking
  /\ video.currentTime < Min(video.duration, MaxTime)
  /\ video' = [video EXCEPT !.currentTime = @ + 1]
  /\ UNCHANGED <<videoUrl, pendingEv, listening, effectPending, renderDuration,
                 closDuration, count, duration, currentTime, chunks,
                 thumbnails, loadingThumbs, passes, lastAlert>>

\* The element finishes the seek it is running and dispatches seeked: every
\* registered onSeeked listener runs (clearTimeout, removeEventListener,
\* resolve), and each resumed pass starts its 100 ms settle delay.
Seeked ==
  /\ video.seeking
  /\ video' = [video EXCEPT !.seeking = FALSE]
  /\ passes' = [p \in Passes |->
                  IF passes[p].pc = "seek"
                  THEN [passes[p] EXCEPT !.pc = "settle"] ELSE passes[p]]
  /\ UNCHANGED <<videoUrl, pendingEv, listening, effectPending, renderDuration,
                 closDuration, count, duration, currentTime, chunks,
                 thumbnails, loadingThumbs, lastAlert>>

\* SeekTimeout with the timer resolving the promise instead of rejecting it:
\* the pass goes on to its settle delay and capture with no seeked event.
SeekTimeoutResolves(p) ==
  /\ passes[p].pc = "seek"
  /\ passes' = [passes EXCEPT ![p].pc = "settle"]
  /\ UNCHANGED <<videoUrl, video, pendingEv, listening, effectPending,
                 renderDuration, closDuration, count, duration, currentTime,
                 chunks, thumbnails, loadingThumbs, lastAlert>>

\* The 5 s timer of a seekTo fires first: the listener is removed, the
\* promise rejects, the catch logs, the loop goes on.
SeekTimeout(p) ==
  /\ passes[p].pc = "seek"
  /\ AfterSample(p, passes[p].thumbs)
  /\ UNCHANGED <<videoUrl, pendingEv, listening, effectPending, renderDuration,
                 closDuration, count, duration, currentTime, chunks, lastAlert>>

\* The settle delay ends: drawImage and toDataURL capture the frame the
\* element shows, or one of them throws.  A thumbnail is recorded as the time
\* of the sample it was taken for.
Capture(p) ==
  /\ passes[p].pc = "settle"
  /\ \E captured \in BOOLEAN :
       AfterSample(p, IF captured
                      THEN Append(passes[p].thumbs, SeekTarget(p))
                      ELSE passes[p].thumbs)
  /\ UNCHANGED <<videoUrl, pendingEv, listening, effectPending, renderDuration,
                 closDuration, count, duration, currentTime, chunks, lastAlert>>

\* The user clicks the timeline.
TimelineClick ==
  /\ \E clickX \in (0 - 1)..(TrackWidth + 1) : handleTimelineClick(clickX)
  /\ UNCHANGED <<videoUrl, pendingEv, listening, effectPending, renderDuration,
                 closDuration, count, duration, currentTime, chunks,
                 thumbnails, loadingThumbs, passes, lastAlert>>

\* The user seeks with the element's own controls.
UserSeek ==
  /\ video.haveMetadata
  /\ \E t \in 0..MaxTime :
       /\ t <= video.duration
       /\ video' = SetCurrentTime(video, t)
  /\ UNCHANGED <<videoUrl, pendingEv, listening, effectPending, renderDuration,
                 closDuration, count, duration, currentTime, chunks,
                 thumbnails, loadingThumbs, passes, lastAlert>>

\* The user presses "Add Chunk".
AddChunk ==
  /\ Len(chunks) < MaxChunks
  /\ handleAddChunk
  /\ UNCHANGED <<videoUrl, video, pendingEv, listening, effectPending,
                 renderDuration, closDuration, count, duration, currentTime,
                 thumbnails, loadingThumbs, passes>>

\* ---------------------------------------------------------- specification
\* The state after the first render: nothing loaded, the effect scheduled.
InitState ==
  /\ videoUrl = 1
  /\ video = EmptyVideo
  /\ pendingEv = {}
  /\ listening = FALSE
  /\ effectPending = TRUE
  /\ renderDuration = 0
  /\ closDuration = 0
  /\ duration = 0
  /\ currentTime = 0
  /\ chunks = << >>
  /\ thumbnails = << >>
  /\ loadingThumbs = FALSE
  /\ passes = << >>
  /\ lastAlert = ""

\* The session with its thumbnail passes: the loading of sources, the
\* duration signals, the passes and the timeline clicks.  (timeupdate, whose
\* handler touches neither the element nor a pass, is left to SpecTimeline.)
Init ==
  /\ InitState
  /\ count \in 1..MaxCount

Next ==
  \/ RunEffect
  \/ ChangeVideoUrl
  \/ LoadMetadata
  \/ DurationChange
  \/ DispatchEvent
  \/ Seeked
  \/ \E p \in Passes : SeekTimeout(p)
  \/ \E p \in Passes : Capture(p)
  \/ TimelineClick

Spec == Init /\ [][Next]_vars

\* The timeline and its chunks under every media event and user action; the
\* sampler is called with count = 0, so that a pass returns at once and the
\* positions its seeks would visit are the user's to choose.
InitTimeline ==
  /\ InitState
  /\ count = 0

NextTimeline ==
  \/ RunEffect
  \/ LoadMetadata
  \/ DurationChange
  \/ SeekableChange
  \/ DispatchEvent
  \/ TimeUpdate
  \/ Play
  \/ Seeked
  \/ TimelineClick
  \/ UserSeek
  \/ AddChunk

SpecTimeline == InitTimeline /\ [][NextTimeline]_vars

\* One media source and a user who leaves the position alone: only the
\* passes move the position, which is 0 when the first of them starts.
NextPasses ==
  \/ RunEffect
  \/ LoadMetadata
  \/ DurationChange
  \/ DispatchEvent
  \/ Seeked
  \/ \E p \in Passes : SeekTimeout(p)
  \/ \E p \in Passes : Capture(p)

SpecPasses == Init /\ [][NextPasses]_vars

\* SpecPasses with the timers of the event loop: the 5 s timer of a pending
\* seekTo and the 100 ms settle timer of a pass fire in the end.
FairPasses ==
  /\ SpecPasses
  /\ \A p \in 1..MaxPasses :
       WF_vars(p \in Passes /\ (SeekTimeout(p) \/ Capture(p)))

\* generateThumbnails on its own: one duration signal is queued for a loaded
\* source of duration count * k at some position, and nothing else happens
\* while the pass it starts runs.  count ranges over 0..MaxCount and the
\* component's thumbCount.
InitSampler ==
  /\ count \in (0..MaxCount) \cup {thumbCount}
  /\ \E k \in 1..MaxInterval : \E t \in 0..1 :
       video = [EmptyVideo EXCEPT !.duration = Max(count, 1) * k,
                                  !.currentTime = t, !.haveMetadata = TRUE]
  /\ videoUrl = 1
  /\ pendingEv = {"durationchange"}
  /\ listening = TRUE
  /\ effectPending = FALSE
  /\ renderDuration = 0
  /\ closDuration = 0
  /\ duration = 0
  /\ currentTime = 0
  /\ chunks = << >>
  /\ thumbnails = << >>
  /\ loadingThumbs = FALSE
  /\ passes = << >>
  /\ lastAlert = ""

NextSampler ==
  \/ DispatchEvent
  \/ Seeked
  \/ \E p \in Passes : SeekTimeout(p)
  \/ \E p \in Passes : Capture(p)

SpecSampler == InitSampler /\ [][NextSampler]_vars

\* The chunk editor on a loaded source of any length up to MaxLongDuration
\* (longer than maxChunk): the metadata has been handled (the working
\* duration is the source's), the position is anywhere in the media, and
\* the user seeks, the element reports its position, the user adds chunks.
InitChunks ==
  /\ count = 0
  /\ videoUrl = 1
  /\ \E d \in 0..MaxLongDuration :
       /\ duration = d
       /\ \E t \in 0..d :
            video = [duration |-> d, currentTime |-> t, seeking |-> FALSE,
                     haveMetadata |-> TRUE, seekable |-> <<d>>]
  /\ pendingEv = {}
  /\ listening = TRUE
  /\ effectPending = FALSE
  /\ renderDuration = 0
  /\ closDuration = 0
  /\ currentTime = 0
  /\ chunks = << >>
  /\ thumbnails = << >>
  /\ loadingThumbs = FALSE
  /\ passes = << >>
  /\ lastAlert = ""

NextChunks ==
  \/ UserSeek
  \/ Seeked
  \/ TimeUpdate
  \/ AddChunk

SpecChunks == InitChunks /\ [][NextChunks]_vars

\* ================================================================= claims

\* C1: no two distinct chunks of the chunk set overlap: for chunks A and B,
\* A.end <= B.start or B.end <= A.start.
C1_NoOverlap ==
  \A a, b \in 1..Len(chunks) :
    a # b => (chunks[a].end <= chunks[b].start \/ chunks[b].end <= chunks[a].start)

\* Two chunks have been added, the second one checked against the first.
C1_Witness == Len(chunks) = 2

\* The candidate interval of an add-chunk action in the current state.
CandStart == video.currentTime
CandEnd == Min(video.currentTime + maxChunk, duration)

\* C2: when the candidate interval intersects an existing chunk, or is
\* shorter than minChunk, or duration <= 0, no step changes the chunk set.
C2_RejectedUnchanged ==
  [][ (\/ duration <= 0
       \/ CandEnd - CandStart < minChunk
       \/ \E k \in 1..Len(chunks) :
            CandStart < chunks[k].end /\ chunks[k].start < CandEnd)
      => chunks' = chunks ]_vars

\* An add-chunk action was rejected for overlapping a stored chunk.
C2_Witness == lastAlert = "Chunk overlaps another!" /\ Len(chunks) >= 1

\* C3: at no time are two thumbnail generation passes in flight on the same
\* media source.
C3_OnePassInFlight == Len(passes) <= 1

\* C4: the completion of a stale pass (one started before a newer pass, or
\* for a source that has since changed) does not replace the stored
\* thumbnails.
C4_NoStaleOverwrite ==
  [][ \A p \in Passes :
        (passes' = RemoveAt(passes, p) /\ Stale(p)) => thumbnails' = thumbnails ]_vars

\* C5: when the passes triggered by duration signals have all completed and
\* the user has not moved the position, the position is the one before the
\* first of them began (under SpecPasses that position is 0).
C5_PositionRestored == (passes = << >>) => video.currentTime = 0

\* C6: when the promise of seekTo(video, t) resolves (the pass leaves its
\* await), the position of the element is t.
C6_ResolvedAtTarget ==
  [][ \A p \in Passes :
        (passes[p].pc = "seek" /\ Len(passes') = Len(passes)
           /\ passes'[p].pc = "settle")
        => video'.currentTime = SeekTarget(p) ]_vars

\* C7: once the working duration is finite and positive, no step (with the
\* media source unchanged) makes it 0 or non-finite.
C7_DurationNeverRegresses ==
  [][ (isFinite(duration) /\ duration > 0)
      => (isFinite(duration') /\ duration' > 0) ]_vars

\* C8: a playback-position update that occurs while the working duration is
\* finite and positive leaves the working duration unchanged.
C8_FallbackOnlyWhenUnknown ==
  [][ (TimeUpdate /\ isFinite(duration) /\ duration > 0)
      => duration' = duration ]_vars

\* C9: every chunk satisfies 0 <= start < end <= duration for the current
\* working duration.
C9_ChunksWithinDuration ==
  \A k \in 1..Len(chunks) :
    /\ 0 <= chunks[k].start
    /\ chunks[k].start < chunks[k].end
    /\ chunks[k].end <= duration

\* The timestamps t_i = i * (duration / count), i in [0, count), in order.
EvenlySpaced(d, n) == [j \in 1..n |-> (j - 1) * (d \div n)]

\* xs increases strictly (so it is non-decreasing and repeats no sample).
Increasing(xs) == \A j, k \in 1..Len(xs) : j < k => xs[j] < xs[k]

\* C10: generateThumbnails returns at most count thumbnails (none for
\* count = 0); the seek of sample i goes to i * (duration / count), where
\* the element is when the sample is captured; the thumbnails' timestamps
\* are non-decreasing and lie on that grid, each sample contributing at most
\* one.
C10_SamplesEvenlySpaced ==
  /\ Len(thumbnails) <= count
  /\ Increasing(thumbnails)
  /\ \A j \in 1..Len(thumbnails) :
       \E k \in 1..count : thumbnails[j] = EvenlySpaced(video.duration, count)[k]
  /\ \A p \in Passes :
       /\ passes[p].i < count
       /\ Len(passes[p].thumbs) <= passes[p].i
       /\ video.currentTime = passes[p].i * (video.duration \div count)

\* Duration 30, count 15, no sample failed: 0, 2, 4, ..., 28.
C10_Witness ==
  /\ count = thumbCount
  /\ video.duration = 30
  /\ thumbnails = EvenlySpaced(30, 15)
  /\ Len(thumbnails) = 15

C12_SeekSettlesOnce ==
  [][ \A p \in Passes :
        LET ps == passes[p]
        IN /\ (Len(passes') = Len(passes) /\ passes'[p] # ps /\ ps.pc = "seek")
              => \/ /\ passes'[p] = [ps EXCEPT !.pc = "settle"]
                    /\ video.seeking /\ ~video'.seeking
                    /\ video'.currentTime = video.currentTime
                 \/ /\ passes'[p] = [ps EXCEPT !.i = ps.i + 1]
                    /\ video'.seeking
                    /\ video'.currentTime = SampleTime(ps.i + 1, ps.interval)
           /\ (Len(passes') = Len(passes) /\ passes'[p] # ps /\ ps.pc = "settle")
              => /\ passes'[p].pc = "seek"
                 /\ passes'[p].i = ps.i + 1
           /\ (passes' = RemoveAt(passes, p) /\ ps.pc = "seek")
              => /\ thumbnails' = ps.thumbs
                 /\ video'.currentTime = ps.originalTime ]_vars

\* A pass whose first seekTo timed out and whose second was resolved by a
\* seeked event.
C12_Witness ==
  \E p \in Passes :
    /\ passes[p].i = 1
    /\ passes[p].pc = "settle"
    /\ passes[p].thumbs = << >>
    /\ ~video.seeking

\* C13: an add-chunk action that changes the chunk list appends exactly
\* {start: t, end: min(t + maxChunk, D)}, t the position of the source and D
\* the working duration, after the chunks already stored, which stay as they
\* were; and every stored chunk is minChunk to maxChunk long.
C13_AppendsExactChunk ==
  /\ [][ chunks' # chunks
         => /\ duration > 0
            /\ chunks' = Append(chunks,
                           [start |-> video.currentTime,
                            end |-> Min(video.currentTime + maxChunk, duration)]) ]_vars
  /\ [](\A k \in 1..Len(chunks) :
          /\ minChunk <= chunks[k].end - chunks[k].start
          /\ chunks[k].end - chunks[k].start <= maxChunk)

\* t = 5 and D = 20 gave {5, 15}, and a later candidate that overlaps it was
\* rejected.
C13_Witness ==
  /\ duration = 20
  /\ chunks = <<[start |-> 5, end |-> 15]>>
  /\ lastAlert = "Chunk overlaps another!"

\* C14: rendering never divides by a zero duration: while the working
\* duration is 0 the playhead offset and the chunk offsets and widths are
\* rendered as 0% (or not at all), never as the NaN or Infinity that
\* currentTime / duration and start / duration give.
C14_NoDivisionByZero ==
  duration = 0
  => /\ playheadLeft = 0
     /\ \A k \in 1..Len(chunks) :
          chunkLeft(chunks[k]) = 0 /\ chunkWidth(chunks[k]) = 0

\* C15: whenever the working duration is positive, the stored currentTime
\* lies within it: 0 <= currentTime <= duration, so that the playhead
\* fraction currentTime / duration is in [0, 1].
C15_PlayheadWithinDuration ==
  duration > 0 => (0 <= currentTime /\ currentTime <= duration)

\* C16: while the working duration is zero or non-finite, every time update
\* at which the source exposes a seekable range sets the working duration to
\* the end of that range.
C16_FallbackAtEveryUpdate ==
  [][ TimeUpdate
      => ( ( /\ ~isFinite(duration) \/ duration = 0
             /\ Len(video.seekable) > 0 )
           => duration' = video.seekable[1] ) ]_vars

\* C17: a pass starts only when the source reports a finite positive
\* duration, which the same step stores as the working duration.  Every
\* loadedmetadata or durationchange event handled while the source reports
\* such a duration stores it and calls the generator (a pass starts, or the
\* call returns at once with no thumbnails for want of a drawing context);
\* one handled while the duration is zero or non-finite starts no pass and
\* leaves the working duration alone.
C17_PassOnlyForKnownDuration ==
  [][ LET known == isFinite(video.duration) /\ video.duration > 0
          handled == listening /\ DispatchEvent
      IN /\ Len(passes') > Len(passes)
            => /\ known
               /\ duration' = video.duration
         /\ (handled /\ known)
            => /\ duration' = video.duration
               /\ \/ Len(passes') = Len(passes) + 1
                  \/ passes' = passes /\ thumbnails' = << >> /\ ~loadingThumbs'
         /\ (handled /\ ~known)
            => /\ passes' = passes
               /\ duration' = duration ]_vars

\* A pass is in flight for the second source, whose duration has been stored,
\* and no event is left to handle.
C17_Witness ==
  /\ Len(passes) = 1
  /\ passes[1].src = 2
  /\ duration = video.duration
  /\ pendingEv = {}

\* C18: for a finite positive working duration the timeline click maps
\* clickX on a track of width W to clamp(clickX / W, 0, 1) * duration: a time
\* within [0, duration], 0 for clickX = 0, duration for clickX = W, and
\* non-decreasing in clickX; the click moves the source to that time.  When
\* the duration is <= 0 or non-finite the click leaves the source alone.
C18_ClickMapsLinearly ==
  /\ []( (isFinite(duration) /\ duration > 0)
         => /\ \A x \in (0 - 1)..(TrackWidth + 1) :
                 /\ 0 <= pixelToTime(x, TrackWidth, duration)
                 /\ pixelToTime(x, TrackWidth, duration) <= duration
            /\ pixelToTime(0, TrackWidth, duration) = 0
            /\ pixelToTime(TrackWidth, TrackWidth, duration) = duration
            /\ \A x, y \in (0 - 1)..(TrackWidth + 1) :
                 x <= y => pixelToTime(x, TrackWidth, duration)
                             <= pixelToTime(y, TrackWidth, duration) )
  /\ [][ TimelineClick
         => IF isFinite(duration) /\ duration > 0
            THEN \E x \in (0 - 1)..(TrackWidth + 1) :
                   /\ video'.currentTime = pixelToTime(x, TrackWidth, duration)
                   /\ video'.currentTime \in 0..duration
            ELSE video' = video ]_vars

\* A click in the middle of the track has started a seek to half of a
\* duration of 4.
C18_Witness ==
  /\ duration = 4
  /\ video.currentTime = 2
  /\ video.seeking
  /\ currentTime = 0

\* C18 as stated, for every positive working duration: the click maps to a
\* time within [0, duration], 0 for clickX = 0 and duration for clickX = W.
C18_ClickMapsForPositiveDuration ==
  duration > 0
  => /\ \A x \in (0 - 1)..(TrackWidth + 1) :
          /\ 0 <= pixelToTime(x, TrackWidth, duration)
          /\ pixelToTime(x, TrackWidth, duration) <= duration
     /\ pixelToTime(0, TrackWidth, duration) = 0
     /\ pixelToTime(TrackWidth, TrackWidth, duration) = duration

\* C19: within a pass the samples are taken one after another in increasing
\* order of their times.  A pass is at one await at a time (the seek of
\* sample i or its settle delay); it issues the seek of sample i + 1, to a
\* later time than sample i's, only in the step in which sample i ends: the
\* timeout of its seek, or the capture that follows its settle delay.  The
\* thumbnails a pass has collected, and those it hands over, are in strictly
\* increasing order of time.
C19_SamplesInSequence ==
  /\ [](/\ Increasing(thumbnails)
        /\ \A p \in Passes :
             /\ Increasing(passes[p].thumbs)
             /\ \A j \in 1..Len(passes[p].thumbs) :
                  passes[p].thumbs[j] < (passes[p].i + 1) * passes[p].interval)
  /\ [][ \A p \in Passes :
           LET ps == passes[p]
           IN (Len(passes') = Len(passes) /\ passes'[p] # ps)
              => \/ /\ ps.pc = "seek"
                    /\ passes'[p].pc = "settle"
                    /\ passes'[p].i = ps.i
                    /\ passes'[p].thumbs = ps.thumbs
                 \/ /\ passes'[p].pc = "seek"
                    /\ passes'[p].i = ps.i + 1
                    /\ video'.seeking
                    /\ video'.currentTime > ps.i * ps.interval
                    /\ video'.currentTime = SeekTarget(p)' ]_vars

\* Sample 0 of a pass has been captured and the seek of sample 1, issued
\* after it, has been resolved.
C19_Witness ==
  \E p \in Passes :
    /\ passes[p].i = 1
    /\ passes[p].pc = "settle"
    /\ passes[p].thumbs = <<0>>

\* C20: loadingThumbs is true exactly while thumbnail generation is in
\* flight: true in every state in which some pass has started and not
\* completed, false when no pass is in flight.
C20_LoadingWhileInFlight ==
  loadingThumbs <=> (passes # << >>)

====
